---- MODULE Spec2Model ----
(***************************************************************************)
(* Model of the review-analytics pipeline's theme extractor                *)
(* (scripts/thematic_analysis.py): the sentiment-results file it reads,    *)
(* the TF-IDF vocabulary selection, K-Means clustering, the top terms per  *)
(* cluster, the merge of theme ids into the full dataset and the thematic  *)
(* results file it writes.                                                 *)
(*                                                                         *)
(* Numeric abstraction.  scikit-learn works on l2-normalised floating      *)
(* point TF-IDF rows.  The model keeps the structure of the computation    *)
(* (term counts, document frequencies, an inverse-document-frequency       *)
(* weight that falls as the document frequency rises, squared Euclidean    *)
(* distances, means) in exact integer arithmetic: a centroid is kept as    *)
(* the pair (sum of its rows, number of rows) and distances are compared   *)
(* by cross-multiplication.  numpy's seeded Mersenne Twister is stood in   *)
(* for by a small linear congruential generator seeded the same way.       *)
(***************************************************************************)
EXTENDS Integers, Sequences, FiniteSets, TLC

VARIABLES
    sentiment_results,  \* data/sentiment_analysis_results.csv: NoFile or its rows
    thematic_results,   \* data/thematic_analysis_results.csv: NoFile or [columns, rows]
    num_clusters,       \* the configured NUM_CLUSTERS
    sort_kind,          \* how this build's numpy argsort orders equal keys
    entropy,            \* OS entropy an unseeded generator would draw from
    run,                \* what the last call of perform_thematic_analysis did
    prev_run,           \* what the call before it did
    runs,               \* number of calls made so far
    docs,               \* a corpus handed to TfidfVectorizer.fit_transform
    fitted,             \* the result of fitting the vectorizer on docs
    cluster_centers,    \* model.cluster_centers_ handed to get_top_terms_per_cluster
    n_terms,            \* its n_terms argument
    cluster_themes,     \* its result
    kmeans,             \* a KMeans fit followed one iteration at a time
    raw_reviews,        \* data/raw_bank_reviews.csv
    clean_reviews,      \* data/clean_bank_reviews.csv
    stage,              \* the stage script run last, and whether it wrote its output
    db                  \* the fintech_reviews table and the run of load_data_to_postgres

vars == <<sentiment_results, thematic_results, num_clusters, sort_kind, entropy,
          run, prev_run, runs, docs, fitted, cluster_centers, n_terms, cluster_themes,
          kmeans, raw_reviews, clean_reviews, stage, db>>

\* The files and the record of the stages before the theme extractor
stageVars == <<raw_reviews, clean_reviews, stage>>

\* Everything but the database
otherVars == <<sentiment_results, thematic_results, num_clusters, sort_kind, entropy,
               run, prev_run, runs, docs, fitted, cluster_centers, n_terms, cluster_themes,
               kmeans, raw_reviews, clean_reviews, stage>>

-----------------------------------------------------------------------------
(* Bounds of the model *)

MaxRows == 7        \* rows of the sentiment-results file
MaxRuns == 2        \* calls of perform_thematic_analysis
MaxDocs == 20       \* documents of a corpus given to the vectorizer alone
MaxWeight == 1      \* centroid weights given to get_top_terms_per_cluster alone
MaxVocab == 3       \* vocabulary size given to get_top_terms_per_cluster alone
MaxPoints == 4      \* rows of a matrix given to KMeans alone
MaxCoord == 4       \* largest entry of such a matrix
MaxK == 3           \* largest cluster count asked of KMeans alone
MaxRaw == 3         \* rows of a table given to preprocess_data alone
MaxScraped == 2     \* rows one run of the scraper collects
MaxLoads == 2       \* runs of load_data_to_postgres
MaxPages == 2       \* full pages of rows in a results file given to the loader

(* Program constants *)

NUM_CLUSTERS == 7
min_df == 5
max_df_percent == 85
max_iter == 100
random_state == 42
theme_n_terms == 6

-----------------------------------------------------------------------------
(* Small helpers *)

Min(a, b) == IF a < b THEN a ELSE b

RECURSIVE SumOver(_, _)
SumOver(S, f) ==
    IF S = {} THEN 0
    ELSE LET x == CHOOSE y \in S : TRUE IN f[x] + SumOver(S \ {x}, f)

\* The sequence f as a tuple, its elements evaluated once
Tuple(f) == f \o <<>>

Reverse(s) == Tuple([i \in 1..Len(s) |-> s[Len(s) + 1 - i]])

-----------------------------------------------------------------------------
(* Cells and rows of the CSV files *)

NoFile == [exists |-> FALSE]

\* No stage script has run yet.
NoStage == [script |-> "none", wrote |-> FALSE, raised |-> FALSE]

\* The fintech_reviews table holds, for each run of the loader, the number of
\* rows that run has committed; pending counts the rows the open transaction of
\* the run's connection has inserted, sent the rows it has sent so far.
NoLoad ==
    [pc |-> "idle", load |-> 0, csv_rows |-> 0, sent |-> 0, pending |-> 0,
     table |-> Tuple([r \in 1..MaxLoads |-> 0]), connected |-> FALSE, outcome |-> "none"]

\* A text cell: pandas reads an empty field as NaN, any other as a string.
NaN == [na |-> TRUE, tokens |-> <<>>]
Str(toks) == [na |-> FALSE, tokens |-> toks]

\* Series.fillna(value)
fillna(cell, value) == IF cell.na THEN value ELSE cell

\* The kinds of row the sentiment-results file is built from.
RowKinds ==
    { [sentiment_label |-> "NEGATIVE", review |-> Str(<<"login", "crash">>)],
      [sentiment_label |-> "NEGATIVE", review |-> NaN],
      [sentiment_label |-> "POSITIVE", review |-> Str(<<"great", "app">>)] }

RECURSIVE SeqsUpTo(_, _)
SeqsUpTo(S, n) ==
    IF n = 0 THEN { <<>> }
    ELSE LET shorter == SeqsUpTo(S, n - 1)
         IN  shorter \cup { Append(s, x) : s \in { t \in shorter : Len(t) = n - 1 }, x \in S }

Datasets == SeqsUpTo(RowKinds, MaxRows)

-----------------------------------------------------------------------------
(* TfidfVectorizer(max_df=0.85, min_df=5, ngram_range=(1, 2)) *)

\* Feature names, in the sorted order scikit-learn gives vocabulary indices.
TermOrder == << "app", "crash", "crash login", "great", "great app",
                "login", "login crash" >>

\* The analyzer: the unigrams and bigrams of a document, with repetition.
Ngrams(doc) ==
    doc.tokens
    \o [i \in 1..(Len(doc.tokens) - 1) |-> doc.tokens[i] \o " " \o doc.tokens[i + 1]]

TermCount(doc, term) ==
    LET g == Ngrams(doc) IN Cardinality({ i \in 1..Len(g) : g[i] = term })

DocFreq(corpus, term) ==
    Cardinality({ i \in 1..Len(corpus) : TermCount(corpus[i], term) > 0 })

\* Every term the analyzer finds in the corpus (before pruning).
CandidateTerms(corpus) ==
    { t \in { TermOrder[j] : j \in 1..Len(TermOrder) } : DocFreq(corpus, t) > 0 }

\* _limit_features: keep a term when min_df <= df and df <= max_df * n_doc.
KeepTermStrict(df, n_doc) == df >= min_df /\ df * 100 < max_df_percent * n_doc
KeepTerm(df, n_doc) == df >= min_df /\ df * 100 <= max_df_percent * n_doc

IsKept(corpus, term) == DocFreq(corpus, term) > 0 /\ KeepTerm(DocFreq(corpus, term), Len(corpus))

Vocabulary(corpus) == SelectSeq(TermOrder, LAMBDA t : IsKept(corpus, t))

\* smooth idf, ln((1 + n) / (1 + df)) + 1, by its first-order value in tenths
Idf(corpus, term) == ((1 + Len(corpus)) * 10) \div (1 + DocFreq(corpus, term))

TfidfRow(corpus, vocab, doc) ==
    Tuple([j \in 1..Len(vocab) |-> TermCount(doc, vocab[j]) * Idf(corpus, vocab[j])])

NoError == "none"
ErrInvalidDocument == "ValueError: np.nan is an invalid document"
ErrEmptyVocabulary == "ValueError: empty vocabulary"
ErrMaxDfBelowMinDf == "ValueError: max_df corresponds to < documents than min_df"
ErrNoTermsRemain == "ValueError: After pruning, no terms remain"
ErrTooFewSamples == "ValueError: n_samples should be >= n_clusters"
ErrNoColumns == "EmptyDataError: No columns to parse from file"
ErrNoLabelColumn == "KeyError: 'sentiment_label'"

VectorizerErrors == { ErrInvalidDocument, ErrEmptyVocabulary, ErrMaxDfBelowMinDf, ErrNoTermsRemain }

NotFitted == [error |-> NoError, vocabulary |-> <<>>, X |-> <<>>]

\* fit_transform: the error it raises, or the vocabulary and the matrix.
fit_transform_unchecked(corpus) ==
    IF \E i \in 1..Len(corpus) : corpus[i].na
    THEN [error |-> ErrInvalidDocument, vocabulary |-> <<>>, X |-> <<>>]
    ELSE [error |-> NoError,
          vocabulary |-> Vocabulary(corpus),
          X |-> Tuple([i \in 1..Len(corpus) |-> TfidfRow(corpus, Vocabulary(corpus), corpus[i])])]
fit_transform(corpus) ==
    LET failed(e) == [error |-> e, vocabulary |-> <<>>, X |-> <<>>]
    IN  IF \E i \in 1..Len(corpus) : corpus[i].na THEN failed(ErrInvalidDocument)
        ELSE IF CandidateTerms(corpus) = {} THEN failed(ErrEmptyVocabulary)
        ELSE IF max_df_percent * Len(corpus) < min_df * 100 THEN failed(ErrMaxDfBelowMinDf)
        ELSE IF Len(Vocabulary(corpus)) = 0 THEN failed(ErrNoTermsRemain)
        ELSE LET vocab == Vocabulary(corpus)
             IN  [error |-> NoError,
                  vocabulary |-> vocab,
                  X |-> Tuple([i \in 1..Len(corpus) |-> TfidfRow(corpus, vocab, corpus[i])])]

-----------------------------------------------------------------------------
(* KMeans(n_clusters, init='k-means++', max_iter=100, n_init=1, random_state=42) *)

\* The generator a RandomState seeded with s yields: its next state.
Rand(s) == (s * 75 + 74) % 65537

\* A centroid is the mean of its rows, kept as their sum and their number.
PointCenter(x) == [sum |-> x, n |-> 1]

\* n^2 times the squared Euclidean distance of row x to centroid c
ScaledSqDist(x, c) ==
    SumOver(1..Len(x), [t \in 1..Len(x) |-> (c.n * x[t] - c.sum[t]) * (c.n * x[t] - c.sum[t])])

\* dist(x, c) < dist(x, d)
Closer(x, c, d) == ScaledSqDist(x, c) * d.n * d.n < ScaledSqDist(x, d) * c.n * c.n

\* argmin over the centroids: of the nearest centroids, the lowest index
NearestLast(x, centers) ==
    CHOOSE j \in 1..Len(centers) :
        /\ \A k \in 1..Len(centers) : ~Closer(x, centers[k], centers[j])
        /\ \A k \in (j + 1)..Len(centers) : Closer(x, centers[j], centers[k])
Nearest(x, centers) ==
    CHOOSE j \in 1..Len(centers) :
        /\ \A k \in 1..Len(centers) : ~Closer(x, centers[k], centers[j])
        /\ \A k \in 1..(j - 1) : Closer(x, centers[j], centers[k])

\* squared Euclidean distance of two rows
SqDist(x, y) == SumOver(1..Len(x), [t \in 1..Len(x) |-> (x[t] - y[t]) * (x[t] - y[t])])

\* searchsorted(cumsum(closest), target): the first row at which the running sum
\* of closest passes target
RECURSIVE SearchSorted(_, _, _, _)
SearchSorted(closest, target, i, acc) ==
    IF i >= Len(closest) \/ acc + closest[i] > target THEN i
    ELSE SearchSorted(closest, target, i + 1, acc + closest[i])

\* k-means++ (one candidate per draw): the first centre is drawn uniformly, each further one with
\* probability proportional to its squared distance to the nearest centre chosen
\* so far (closest); s is the state of the generator.
RECURSIVE KMeansPlusPlus(_, _, _, _, _)
KMeansPlusPlus(X, k, chosen, closest, s) ==
    IF Len(chosen) = k THEN chosen
    ELSE LET r == Rand(s)
             pot == SumOver(1..Len(X), closest)
             pick == IF chosen = <<>> THEN (r % Len(X)) + 1
                     ELSE IF pot = 0 THEN 1
                     ELSE SearchSorted(closest, r % pot, 1, 0)
             dist == Tuple([i \in 1..Len(X) |-> SqDist(X[i], X[pick])])
         IN  KMeansPlusPlus(X, k, Append(chosen, pick),
                            Tuple([i \in 1..Len(X) |->
                                IF chosen = <<>> THEN dist[i] ELSE Min(closest[i], dist[i])]),
                            r)

Members(labels, j) == { i \in 1..Len(labels) : labels[i] = j }

RowSum(X, S) == Tuple([t \in 1..Len(X[1]) |-> SumOver(S, [i \in S |-> X[i][t]])])

\* The rows in order of decreasing distance to their own centroid (ties: lowest row first).
Farthest(X, labels, centers, rank) ==
    LET before(a, b) ==
            \/ ScaledSqDist(X[a], centers[labels[a]]) * centers[labels[b]].n * centers[labels[b]].n
                 > ScaledSqDist(X[b], centers[labels[b]]) * centers[labels[a]].n * centers[labels[a]].n
            \/ /\ ScaledSqDist(X[a], centers[labels[a]]) * centers[labels[b]].n * centers[labels[b]].n
                    = ScaledSqDist(X[b], centers[labels[b]]) * centers[labels[a]].n * centers[labels[a]].n
               /\ a < b
    IN  CHOOSE i \in 1..Len(X) : Cardinality({ a \in 1..Len(X) : before(a, i) }) = rank - 1

\* The M-step: each centroid becomes the mean of its rows; an empty cluster is
\* relocated to one of the rows farthest from their centroids.
UpdateCenters(X, labels, centers) ==
    LET empty == { j \in 1..Len(centers) : Members(labels, j) = {} }
        emptyRank(j) == Cardinality({ e \in empty : e <= j })
    IN  Tuple([j \in 1..Len(centers) |->
            IF j \in empty
            THEN PointCenter(X[Farthest(X, labels, centers, emptyRank(j))])
            ELSE [sum |-> RowSum(X, Members(labels, j)), n |-> Cardinality(Members(labels, j))]])

AssignLabels(X, centers) == Tuple([i \in 1..Len(X) |-> Nearest(X[i], centers)])

\* Lloyd's iteration: stop when an iteration changes no label, or after max_iter.
\* (scikit-learn also stops when the centroids move by no more than a tolerance;
\* in exact arithmetic centroids that do not move leave the labels unchanged.)
RECURSIVE Lloyd(_, _, _, _)
Lloyd(X, centers, labels_old, iter) ==
    LET labels == AssignLabels(X, centers)
        centers_new == UpdateCenters(X, labels, centers)
    IN  IF iter >= 1 /\ labels = labels_old
        THEN [labels |-> labels, centers |-> centers, n_iter |-> iter + 1]
        ELSE IF iter + 1 >= max_iter
        THEN [labels |-> AssignLabels(X, centers_new), centers |-> centers_new, n_iter |-> iter + 1]
        ELSE Lloyd(X, centers_new, labels, iter + 1)

\* The seed of the generator: random_state when given, OS entropy otherwise.
SeedFromEntropy == entropy
Seed == random_state

\* KMeans.fit: the error it raises, or labels_ (0-based) and cluster_centers_.
KMeansFitUnchecked(X, k, seed) ==
    LET init == KMeansPlusPlus(X, k, <<>>, Tuple([i \in 1..Len(X) |-> 0]), seed)
        res == Lloyd(X, Tuple([j \in 1..k |-> PointCenter(X[init[j]])]), <<>>, 0)
    IN  [error |-> NoError,
         labels |-> Tuple([i \in 1..Len(X) |-> res.labels[i] - 1]),
         centers |-> Tuple([j \in 1..k |-> res.centers[j].sum]),
         n_iter |-> res.n_iter]
KMeansFit(X, k, seed) ==
    IF Len(X) < k
    THEN [error |-> ErrTooFewSamples, labels |-> <<>>, centers |-> <<>>, n_iter |-> 0]
    ELSE LET init == KMeansPlusPlus(X, k, <<>>, Tuple([i \in 1..Len(X) |-> 0]), seed)
             res == Lloyd(X, Tuple([j \in 1..k |-> PointCenter(X[init[j]])]), <<>>, 0)
         IN  [error |-> NoError,
              labels |-> Tuple([i \in 1..Len(X) |-> res.labels[i] - 1]),
              centers |-> Tuple([j \in 1..k |-> res.centers[j].sum]),
              n_iter |-> res.n_iter]

\* The fit followed step by step: the matrix, the cluster count, the centroids,
\* the centroids the last labels were assigned from, the labels of the last two
\* iterations and the number of iterations made.
NoKMeans == [phase |-> "none", X |-> <<>>, k |-> 0, centers |-> <<>>, assigned_from |-> <<>>,
             labels |-> <<>>, labels_old |-> <<>>, n_iter |-> 0, error |-> NoError]

\* KMeans.fit up to the first iteration: the check of n_samples and k-means++.
KMeansStart ==
    /\ kmeans.phase = "new"
    /\ kmeans' =
          IF Len(kmeans.X) < kmeans.k
          THEN [kmeans EXCEPT !.phase = "error", !.error = ErrTooFewSamples]
          ELSE LET init == KMeansPlusPlus(kmeans.X, kmeans.k, <<>>,
                                          Tuple([i \in 1..Len(kmeans.X) |-> 0]), Seed)
               IN  [kmeans EXCEPT !.phase = "iterating",
                                  !.centers = Tuple([j \in 1..kmeans.k |->
                                                        PointCenter(kmeans.X[init[j]])])]
    /\ UNCHANGED <<sentiment_results, thematic_results, num_clusters, sort_kind, entropy,
                   run, prev_run, runs, docs, fitted, cluster_centers, n_terms, cluster_themes,
                   stageVars, db>>

\* Whether the loop stops after an iteration that gave these labels.
StopsAtMaxIter(labels, labels_old, iter) == iter >= max_iter
Stops(labels, labels_old, iter) == labels = labels_old \/ iter >= max_iter

\* One iteration of the loop: the E-step, the M-step and the test for the end.
\* When the loop ends by max_iter the labels are assigned once more, from the
\* last centroids.
LloydIteration ==
    /\ kmeans.phase = "iterating"
    /\ LET labels == AssignLabels(kmeans.X, kmeans.centers)
           centers_new == UpdateCenters(kmeans.X, labels, kmeans.centers)
           iter == kmeans.n_iter + 1
       IN  kmeans' =
              IF ~Stops(labels, kmeans.labels, iter)
              THEN [kmeans EXCEPT !.labels = labels, !.labels_old = kmeans.labels,
                                  !.assigned_from = kmeans.centers,
                                  !.centers = centers_new, !.n_iter = iter]
              ELSE IF labels = kmeans.labels
              THEN [kmeans EXCEPT !.phase = "done", !.labels = labels,
                                  !.labels_old = kmeans.labels,
                                  !.assigned_from = kmeans.centers, !.n_iter = iter]
              ELSE [kmeans EXCEPT !.phase = "done",
                                  !.labels = AssignLabels(kmeans.X, centers_new),
                                  !.labels_old = labels,
                                  !.assigned_from = centers_new,
                                  !.centers = centers_new, !.n_iter = iter]
    /\ UNCHANGED <<sentiment_results, thematic_results, num_clusters, sort_kind, entropy,
                   run, prev_run, runs, docs, fitted, cluster_centers, n_terms, cluster_themes,
                   stageVars, db>>

-----------------------------------------------------------------------------
(* get_top_terms_per_cluster(vectorizer, model, n_terms) *)

SortKinds == { "stable", "unstable" }

\* Whether argsort places index a before index b.  numpy's default sort is not
\* stable: a stable build keeps equal keys in index order, another may not.
SortsBefore(w, kind, a, b) ==
    \/ w[a] < w[b]
    \/ w[a] = w[b] /\ (IF kind = "stable" THEN a < b ELSE a > b)

argsort(w, kind) ==
    Tuple([p \in 1..Len(w) |->
        CHOOSE i \in 1..Len(w) :
            Cardinality({ a \in 1..Len(w) : SortsBefore(w, kind, a, i) }) = p - 1])

\* model.cluster_centers_.argsort()[:, ::-1]
order_centroids_ascending(centers, kind) ==
    Tuple([i \in 1..Len(centers) |-> argsort(centers[i], kind)])
order_centroids(centers, kind) ==
    Tuple([i \in 1..Len(centers) |-> Reverse(argsort(centers[i], kind))])

\* For cluster i, [terms[ind] for ind in order_centroids[i, :n_terms]]
get_top_terms_per_cluster(terms, centers, n, kind) ==
    LET order == order_centroids(centers, kind)
    IN  Tuple([i \in 1..Len(centers) |->
            Tuple([p \in 1..Min(n, Len(terms)) |-> terms[order[i][p]]])])

-----------------------------------------------------------------------------
(* perform_thematic_analysis() *)

NotRun == [outcome |-> "not_run", error |-> NoError, raised |-> FALSE, n_negative |-> 0,
           vocabulary |-> <<>>, clustered |-> FALSE, labels |-> <<>>, theme_mapping |-> <<>>,
           theme_id |-> <<>>]

\* df[df['sentiment_label'] == 'NEGATIVE']: the index of the negative rows
NegativeIndex(rows) ==
    LET RECURSIVE Pick(_)
        Pick(i) == IF i = 0 THEN <<>>
                   ELSE IF rows[i].sentiment_label = "NEGATIVE" THEN Append(Pick(i - 1), i)
                   ELSE Pick(i - 1)
    IN  Pick(Len(rows))

\* df_negative['review'].fillna('')
NegativeReviews(rows) ==
    LET idx == NegativeIndex(rows)
    IN  Tuple([p \in 1..Len(idx) |-> fillna(rows[idx[p]].review, Str(<<>>))])

\* Steps 6 of the function: df['theme_id'] = None; df.update(df_negative['theme_id']);
\* df['theme_id'].fillna(-1).astype(int).  The update aligns on the row index.
MergeNegativeOnly(rows, idx, labels) ==
    Tuple([p \in 1..Len(idx) |->
        [sentiment_label |-> rows[idx[p]].sentiment_label, review |-> rows[idx[p]].review,
         theme_id |-> labels[p]]])
MergeByPosition(rows, idx, labels) ==
    Tuple([i \in 1..Len(rows) |->
        [sentiment_label |-> rows[i].sentiment_label, review |-> rows[i].review,
         theme_id |-> IF i <= Len(labels) THEN labels[i] ELSE -1]])
MergeThemes(rows, idx, labels) ==
    LET updated == [i \in { idx[p] : p \in 1..Len(idx) } |->
                        labels[CHOOSE p \in 1..Len(idx) : idx[p] = i]]
    IN  Tuple([i \in 1..Len(rows) |->
            [sentiment_label |-> rows[i].sentiment_label, review |-> rows[i].review,
             theme_id |-> IF i \in DOMAIN updated THEN updated[i] ELSE -1]])

InputColumns == { "sentiment_label", "review" }

\* pd.read_csv and the filter on sentiment_label: the error they raise on a file
\* with these columns
LoadError(file) ==
    IF file.columns = {} THEN ErrNoColumns
    ELSE IF "sentiment_label" \notin file.columns THEN ErrNoLabelColumn
    ELSE NoError

\* The except clause: the error is logged, nothing has been saved and nothing
\* is raised to the caller.
FailedAfterSaving(report, df) ==
    [report |-> report, write |-> TRUE, columns |-> InputColumns, rows |-> df]
Failed(report, df) ==
    [report |-> report, write |-> FALSE, columns |-> {}, rows |-> <<>>]

\* What one call does to the thematic results file, and what it reports.
Analysis(file, k, kind, seed) ==
    LET rows == file.rows
        idx == NegativeIndex(rows)
        vec == fit_transform(NegativeReviews(rows))
        km == KMeansFit(vec.X, k, seed)
        merged == MergeThemes(rows, idx, km.labels)
        base == [NotRun EXCEPT !.n_negative = Len(idx)]
    IN  IF ~file.exists
        THEN [report |-> [NotRun EXCEPT !.outcome = "input_missing"], write |-> FALSE,
              columns |-> {}, rows |-> <<>>]
        ELSE IF LoadError(file) # NoError
        THEN Failed([NotRun EXCEPT !.outcome = "error", !.error = LoadError(file)], <<>>)
        ELSE IF Len(idx) = 0
        THEN [report |-> [base EXCEPT !.outcome = "skipped"], write |-> TRUE,
              columns |-> InputColumns, rows |-> rows]
        ELSE IF vec.error # NoError
        THEN Failed([base EXCEPT !.outcome = "error", !.error = vec.error], rows)
        ELSE IF km.error # NoError
        THEN Failed([base EXCEPT !.outcome = "error", !.error = km.error,
                                 !.vocabulary = vec.vocabulary], rows)
        ELSE [report |-> [base EXCEPT !.outcome = "saved", !.vocabulary = vec.vocabulary,
                                      !.clustered = TRUE, !.labels = km.labels,
                                      !.theme_id =
                                          Tuple([i \in 1..Len(merged) |-> merged[i].theme_id]),
                                      !.theme_mapping =
                                          get_top_terms_per_cluster(vec.vocabulary, km.centers,
                                                                    theme_n_terms, kind)],
              write |-> TRUE, columns |-> InputColumns \cup { "theme_id" },
              rows |-> merged]

perform_thematic_analysis ==
    /\ runs < MaxRuns
    /\ LET a == Analysis(sentiment_results, num_clusters, sort_kind, Seed)
       IN  /\ run' = a.report
           /\ thematic_results' =
                 IF a.write THEN [exists |-> TRUE, columns |-> a.columns, rows |-> a.rows]
                 ELSE thematic_results
           /\ stage' = [script |-> "thematic_analysis", wrote |-> a.write, raised |-> FALSE]
    /\ prev_run' = run
    /\ runs' = runs + 1
    /\ entropy' = entropy + 1
    /\ UNCHANGED <<sentiment_results, num_clusters, sort_kind,
                   docs, fitted, cluster_centers, n_terms, cluster_themes, kmeans,
                   raw_reviews, clean_reviews, db>>

-----------------------------------------------------------------------------
(* The theme extractor run on a sentiment-results file *)

ClusterCounts == { 1, 2, NUM_CLUSTERS }

\* A sentiment-results file that cannot be loaded: an empty file, and a table
\* without the sentiment_label column
EmptyFile == [exists |-> TRUE, columns |-> {}, rows |-> <<>>]
UnlabelledFile == [exists |-> TRUE, columns |-> { "review" }, rows |-> <<>>]

\* The thematic results an earlier run left from an earlier input
EarlierResults ==
    [exists |-> TRUE, columns |-> InputColumns \cup { "theme_id" },
     rows |-> << [sentiment_label |-> "POSITIVE", review |-> Str(<<"great", "app">>),
                  theme_id |-> -1] >>]

Init ==
    /\ sentiment_results \in
          { NoFile, EmptyFile, UnlabelledFile }
             \cup { [exists |-> TRUE, columns |-> InputColumns, rows |-> d] : d \in Datasets }
    /\ thematic_results = NoFile
    /\ num_clusters \in ClusterCounts
    /\ sort_kind \in SortKinds
    /\ entropy = 0
    /\ run = NotRun
    /\ prev_run = NotRun
    /\ runs = 0
    /\ docs = <<>>
    /\ fitted = NotFitted
    /\ cluster_centers = <<>>
    /\ n_terms = 0
    /\ cluster_themes = <<>>
    /\ kmeans = NoKMeans
    /\ db = NoLoad
    /\ raw_reviews = NoFile
    /\ clean_reviews = NoFile
    /\ stage = NoStage

Next == perform_thematic_analysis

Spec == Init /\ [][Next]_vars

\* The same runs in a data directory that holds the results of an earlier run
InitRerun ==
    /\ sentiment_results \in
          { NoFile, EmptyFile, UnlabelledFile }
             \cup { [exists |-> TRUE, columns |-> InputColumns, rows |-> d] : d \in Datasets }
    /\ thematic_results = EarlierResults
    /\ num_clusters \in ClusterCounts
    /\ sort_kind \in SortKinds
    /\ entropy = 0
    /\ run = NotRun
    /\ prev_run = NotRun
    /\ runs = 0
    /\ docs = <<>>
    /\ fitted = NotFitted
    /\ cluster_centers = <<>>
    /\ n_terms = 0
    /\ cluster_themes = <<>>
    /\ kmeans = NoKMeans
    /\ db = NoLoad
    /\ raw_reviews = NoFile
    /\ clean_reviews = NoFile
    /\ stage = NoStage

SpecRerun == InitRerun /\ [][Next]_vars

-----------------------------------------------------------------------------
(* The vectorizer alone, fitted on a corpus *)

\* The kinds of document of such a corpus, and the corpus holding given numbers of each.
DocKinds == << Str(<<"login", "crash">>), Str(<<"login">>), Str(<<>>) >>

Repeat(d, n) == Tuple([i \in 1..n |-> d])

Corpus(a, b, c) == Repeat(DocKinds[1], a) \o Repeat(DocKinds[2], b) \o Repeat(DocKinds[3], c)

FitVectorizer ==
    /\ fitted = NotFitted
    /\ Len(docs) > 0
    /\ fitted' = fit_transform(docs)
    /\ UNCHANGED <<sentiment_results, thematic_results, num_clusters, sort_kind, entropy,
                   run, prev_run, runs, docs, cluster_centers, n_terms, cluster_themes, kmeans,
                   stageVars, db>>

InitVocab ==
    /\ docs \in { Corpus(a, b, c) : a \in 0..MaxDocs, b \in 0..MaxDocs, c \in 0..MaxDocs }
    /\ Len(docs) <= MaxDocs
    /\ fitted = NotFitted
    /\ sentiment_results = NoFile
    /\ thematic_results = NoFile
    /\ num_clusters = NUM_CLUSTERS
    /\ sort_kind = "stable"
    /\ entropy = 0
    /\ run = NotRun
    /\ prev_run = NotRun
    /\ runs = 0
    /\ cluster_centers = <<>>
    /\ n_terms = 0
    /\ cluster_themes = <<>>
    /\ kmeans = NoKMeans
    /\ db = NoLoad
    /\ raw_reviews = NoFile
    /\ clean_reviews = NoFile
    /\ stage = NoStage

SpecVocab == InitVocab /\ [][FitVectorizer]_vars

-----------------------------------------------------------------------------
(* get_top_terms_per_cluster alone, on given centroids *)

TopTermsVocabulary == SubSeq(TermOrder, 1, MaxVocab)

WeightRows == [1..MaxVocab -> 0..MaxWeight]

TopTerms ==
    /\ cluster_themes = <<>>
    /\ cluster_themes' =
          get_top_terms_per_cluster(TopTermsVocabulary, cluster_centers, n_terms, sort_kind)
    /\ UNCHANGED <<sentiment_results, thematic_results, num_clusters, sort_kind, entropy,
                   run, prev_run, runs, docs, fitted, cluster_centers, n_terms, kmeans,
                   stageVars, db>>

InitTopTerms ==
    /\ cluster_centers \in { <<Tuple(r1), Tuple(r2)>> : r1 \in WeightRows, r2 \in WeightRows }
    /\ n_terms \in 1..MaxVocab
    /\ sort_kind \in SortKinds
    /\ cluster_themes = <<>>
    /\ docs = <<>>
    /\ fitted = NotFitted
    /\ sentiment_results = NoFile
    /\ thematic_results = NoFile
    /\ num_clusters = 2
    /\ entropy = 0
    /\ run = NotRun
    /\ prev_run = NotRun
    /\ runs = 0
    /\ kmeans = NoKMeans
    /\ db = NoLoad
    /\ raw_reviews = NoFile
    /\ clean_reviews = NoFile
    /\ stage = NoStage

SpecTopTerms == InitTopTerms /\ [][TopTerms]_vars

-----------------------------------------------------------------------------
(* preprocess_data.py *)

RawColumns == { "bank_name", "content", "score", "at", "source", "review_id" }
CleanColumns == { "review", "rating", "date", "bank", "source" }

\* A date cell: 'YYYY-MM-DD HH:MM:SS' as the scraper writes it (time >= 1),
\* 'YYYY-MM-DD' (time = 0), or text that is no date.
Timestamp(d, t) == [parses |-> TRUE, day |-> d, time |-> t]
NotADate == [parses |-> FALSE, day |-> 0, time |-> 0]

\* dt.strftime('%Y-%m-%d')
strftime(cell) == [cell EXCEPT !.time = 0]

\* df.rename(columns={...})[['review', 'rating', 'date', 'bank', 'source']]
rename_select(row) ==
    [review |-> row.content, rating |-> row.score, date |-> row.at,
     bank |-> row.bank_name, source |-> row.source]

\* Two rows agree on the subset ['review', 'rating', 'bank']; missing values
\* count as equal to each other.
SameKey(a, b) == a.review = b.review /\ a.rating = b.rating /\ a.bank = b.bank

\* drop_duplicates(subset=['review', 'rating', 'bank']): of the first n rows,
\* those with no equal row before them (keep='first' is the default)
RECURSIVE drop_duplicates_keep_last(_, _)
drop_duplicates_keep_last(rows, n) ==
    IF n = 0 THEN <<>>
    ELSE IF \E j \in (n + 1)..Len(rows) : SameKey(rows[j], rows[n])
    THEN drop_duplicates_keep_last(rows, n - 1)
    ELSE Append(drop_duplicates_keep_last(rows, n - 1), rows[n])
RECURSIVE drop_duplicates(_, _)
drop_duplicates(rows, n) ==
    IF n = 0 THEN <<>>
    ELSE IF \E j \in 1..(n - 1) : SameKey(rows[j], rows[n])
    THEN drop_duplicates(rows, n - 1)
    ELSE Append(drop_duplicates(rows, n - 1), rows[n])

\* dropna(subset=['review'])
HasReview(row) == ~row.review.na
dropna(rows) == SelectSeq(rows, HasReview)

\* Step 4: pd.to_datetime raises on a value that is no date, and then the
\* column keeps its original format.
normalize_dates(rows) ==
    IF \A i \in 1..Len(rows) : rows[i].date.parses
    THEN Tuple([i \in 1..Len(rows) |-> [rows[i] EXCEPT !.date = strftime(rows[i].date)]])
    ELSE rows

preprocess_data(df) ==
    LET df_clean == Tuple([i \in 1..Len(df) |-> rename_select(df[i])])
    IN  normalize_dates(dropna(drop_duplicates(df_clean, Len(df_clean))))

\* The script: nothing is caught, so an error of read_csv or of preprocess_data
\* ends it before the save.
preprocess_main ==
    /\ IF ~raw_reviews.exists
       THEN /\ stage' = [script |-> "preprocess_data", wrote |-> FALSE, raised |-> FALSE]
            /\ UNCHANGED clean_reviews
       ELSE IF ~(RawColumns \subseteq raw_reviews.columns)
       THEN /\ stage' = [script |-> "preprocess_data", wrote |-> FALSE, raised |-> TRUE]
            /\ UNCHANGED clean_reviews
       ELSE /\ stage' = [script |-> "preprocess_data", wrote |-> TRUE, raised |-> FALSE]
            /\ clean_reviews' = [exists |-> TRUE, columns |-> CleanColumns,
                                 rows |-> preprocess_data(raw_reviews.rows)]
    /\ UNCHANGED <<sentiment_results, thematic_results, num_clusters, sort_kind, entropy,
                   run, prev_run, runs, docs, fitted, cluster_centers, n_terms, cluster_themes,
                   kmeans, raw_reviews, db>>

-----------------------------------------------------------------------------
(* preprocess_data run on a given raw table *)

RawRows ==
    { [bank_name |-> b, content |-> c, score |-> r, at |-> d, source |-> "Google Play Store",
       review_id |-> 0] :
        b \in { "CBE", "BOA" }, c \in { Str(<<"login", "crash">>), NaN }, r \in { 1, 5 },
        d \in { Timestamp(1, 1), NotADate } }

RawTables == SeqsUpTo(RawRows, MaxRaw)

InitPreprocess ==
    /\ raw_reviews \in { [exists |-> TRUE, columns |-> RawColumns, rows |-> t] : t \in RawTables }
    /\ clean_reviews = NoFile
    /\ stage = NoStage
    /\ sentiment_results = NoFile
    /\ thematic_results = NoFile
    /\ num_clusters = NUM_CLUSTERS
    /\ sort_kind = "stable"
    /\ entropy = 0
    /\ run = NotRun
    /\ prev_run = NotRun
    /\ runs = 0
    /\ docs = <<>>
    /\ fitted = NotFitted
    /\ cluster_centers = <<>>
    /\ n_terms = 0
    /\ cluster_themes = <<>>
    /\ kmeans = NoKMeans
    /\ db = NoLoad

SpecPreprocess == InitPreprocess /\ [][preprocess_main]_vars

-----------------------------------------------------------------------------
(* The stage scripts run in any order on one data directory *)

\* What one run of the scraper collects for the store's reviews
ScrapedRows == { r \in RawRows : r.bank_name = "CBE" /\ r.score = 1 /\ r.at.parses }
ScrapedTables == SeqsUpTo(ScrapedRows, MaxScraped)

\* scraper_reviews.py: a failed scrape of a bank is skipped, and whatever was
\* collected is saved; a frame of no reviews has no columns.
scraper_main ==
    /\ \E all_reviews \in ScrapedTables :
          raw_reviews' =
              IF all_reviews = <<>> THEN EmptyFile
              ELSE [exists |-> TRUE, columns |-> RawColumns, rows |-> all_reviews]
    /\ stage' = [script |-> "scraper_reviews", wrote |-> TRUE, raised |-> FALSE]
    /\ UNCHANGED <<sentiment_results, thematic_results, num_clusters, sort_kind, entropy,
                   run, prev_run, runs, docs, fitted, cluster_centers, n_terms, cluster_themes,
                   kmeans, clean_reviews, db>>

SentimentLabels == { "POSITIVE", "NEGATIVE" }

\* What the model does on a run: it fails to load, fails on the reviews, or
\* labels them.
ModelOutcomes == { "load_error", "pipeline_error", "labelled" }

\* analyze_sentiment(df): the frame it returns.  Of a labelled frame the model
\* keeps the columns the theme extractor reads.
analyze_sentiment(df, outcome, labels) ==
    IF df.rows = <<>> \/ "review" \notin df.columns \/ outcome # "labelled"
    THEN [columns |-> df.columns, rows |-> df.rows]
    ELSE [columns |-> InputColumns,
          rows |-> Tuple([i \in 1..Len(df.rows) |->
                      [sentiment_label |-> labels[i], review |-> df.rows[i].review]])]

\* 'sentiment_label' in df_results.columns and not df_results.empty
ColumnsWereAddedUnchecked(df_results) == TRUE
ColumnsWereAdded(df_results) ==
    "sentiment_label" \in df_results.columns /\ df_results.rows # <<>>

\* sentiment_analysis.py
sentiment_main ==
    /\ IF ~clean_reviews.exists \/ clean_reviews.columns = {}
       THEN UNCHANGED sentiment_results
            /\ stage' = [script |-> "sentiment_analysis", wrote |-> FALSE, raised |-> FALSE]
       ELSE \E outcome \in ModelOutcomes :
            \E labels \in [1..Len(clean_reviews.rows) -> SentimentLabels] :
                LET df_results == analyze_sentiment(clean_reviews, outcome, labels)
                IN  IF ColumnsWereAdded(df_results)
                    THEN /\ sentiment_results' = [exists |-> TRUE, columns |-> df_results.columns,
                                                  rows |-> df_results.rows]
                         /\ stage' = [script |-> "sentiment_analysis", wrote |-> TRUE,
                                      raised |-> FALSE]
                    ELSE /\ UNCHANGED sentiment_results
                         /\ stage' = [script |-> "sentiment_analysis", wrote |-> FALSE,
                                      raised |-> FALSE]
    /\ UNCHANGED <<thematic_results, num_clusters, sort_kind, entropy,
                   run, prev_run, runs, docs, fitted, cluster_centers, n_terms, cluster_themes,
                   kmeans, raw_reviews, clean_reviews, db>>

\* An empty data directory
InitPipeline ==
    /\ raw_reviews = NoFile
    /\ clean_reviews = NoFile
    /\ sentiment_results = NoFile
    /\ thematic_results = NoFile
    /\ stage = NoStage
    /\ num_clusters = NUM_CLUSTERS
    /\ sort_kind \in SortKinds
    /\ entropy = 0
    /\ run = NotRun
    /\ prev_run = NotRun
    /\ runs = 0
    /\ docs = <<>>
    /\ fitted = NotFitted
    /\ cluster_centers = <<>>
    /\ n_terms = 0
    /\ cluster_themes = <<>>
    /\ kmeans = NoKMeans
    /\ db = NoLoad

NextPipeline ==
    \/ scraper_main
    \/ preprocess_main
    \/ sentiment_main
    \/ perform_thematic_analysis

SpecPipeline == InitPipeline /\ [][NextPipeline]_vars

-----------------------------------------------------------------------------
(* load_to_postgres.py *)

page_size == 1000

\* The number of rows of the thematic results file of a run
CsvSizes == { 0, 1 } \cup { p * page_size + r : p \in 1..MaxPages, r \in { 0, 1 } }

\* What an operation raises when it fails
ErrorKinds == { "psycopg2.Error", "Exception" }

\* conn.commit(), conn.rollback() and conn.close(): closing a connection
\* discards the transaction it has open.
Commit(d) == [d EXCEPT !.table[d.load] = @ + d.pending, !.pending = 0]
Rollback(d) == [d EXCEPT !.pending = 0]
Close(d) == [d EXCEPT !.pending = 0, !.connected = FALSE]

\* One INSERT statement of execute_values, run in the open transaction
InsertPageAutocommit(d, rows) ==
    [d EXCEPT !.table[d.load] = @ + rows, !.sent = @ + rows]
InsertPage(d, rows) == [d EXCEPT !.pending = @ + rows, !.sent = @ + rows]

\* The except and finally clauses of load_data_to_postgres
Handle(d, kind) ==
    LET handled == IF kind = "psycopg2.Error" /\ d.connected THEN Rollback(d) ELSE d
        closed == IF handled.connected THEN Close(handled) ELSE handled
    IN  [closed EXCEPT !.pc = "returned", !.outcome = kind]

\* The call, and create_database_if_not_exists: without the database the
\* function returns at once.
begin_load ==
    /\ db.pc \in { "idle", "returned" }
    /\ db.load < MaxLoads
    /\ \E n \in CsvSizes, reachable \in BOOLEAN :
          db' = [db EXCEPT !.load = @ + 1, !.csv_rows = n, !.sent = 0, !.pending = 0,
                           !.connected = FALSE,
                           !.pc = IF reachable THEN "read_csv" ELSE "returned",
                           !.outcome = IF reachable THEN "running" ELSE "no_database"]
    /\ UNCHANGED otherVars

\* Steps 1 and 2: pd.read_csv and the cleaning of the columns
read_csv ==
    /\ db.pc = "read_csv"
    /\ \/ db' = [db EXCEPT !.pc = "connect"]
       \/ db' = Handle(db, "Exception")
    /\ UNCHANGED otherVars

\* psycopg2.connect(**DB_CONFIG)
connect ==
    /\ db.pc = "connect"
    /\ \/ db' = [db EXCEPT !.pc = "create_table", !.connected = TRUE]
       \/ db' = Handle(db, "psycopg2.Error")
    /\ UNCHANGED otherVars

\* create_table_if_not_exists(conn): it commits, or rolls back and re-raises
create_table_if_not_exists ==
    /\ db.pc = "create_table"
    /\ \/ db' = [Commit(db) EXCEPT !.pc = "insert"]
       \/ db' = Handle(Rollback(db), "psycopg2.Error")
    /\ UNCHANGED otherVars

\* extras.execute_values(..., page_size=1000): the next page of rows, or the
\* failure of building the tuples or of the statement
execute_values ==
    /\ db.pc = "insert"
    /\ \/ /\ db.sent < db.csv_rows
          /\ db' = InsertPage(db, Min(page_size, db.csv_rows - db.sent))
       \/ /\ db.sent = db.csv_rows
          /\ db' = [db EXCEPT !.pc = "commit"]
       \/ \E kind \in ErrorKinds : db' = Handle(db, kind)
    /\ UNCHANGED otherVars

\* conn.commit(), then the finally clause
commit ==
    /\ db.pc = "commit"
    /\ \/ db' = [Close(Commit(db)) EXCEPT !.pc = "returned", !.outcome = "success"]
       \/ db' = Handle(db, "psycopg2.Error")
    /\ UNCHANGED otherVars

InitLoad ==
    /\ db = NoLoad
    /\ raw_reviews = NoFile
    /\ clean_reviews = NoFile
    /\ sentiment_results = NoFile
    /\ thematic_results = NoFile
    /\ stage = NoStage
    /\ num_clusters = NUM_CLUSTERS
    /\ sort_kind = "stable"
    /\ entropy = 0
    /\ run = NotRun
    /\ prev_run = NotRun
    /\ runs = 0
    /\ docs = <<>>
    /\ fitted = NotFitted
    /\ cluster_centers = <<>>
    /\ n_terms = 0
    /\ cluster_themes = <<>>
    /\ kmeans = NoKMeans

NextLoad ==
    \/ begin_load
    \/ read_csv
    \/ connect
    \/ create_table_if_not_exists
    \/ execute_values
    \/ commit

SpecLoad == InitLoad /\ [][NextLoad]_vars

-----------------------------------------------------------------------------
(* KMeans alone, fitted on a given matrix *)

\* Matrices of one column with entries 0..MaxCoord
Points == { <<v>> : v \in 0..MaxCoord }
Matrices == SeqsUpTo(Points, MaxPoints) \ { <<>> }

InitKMeans ==
    /\ \E X \in Matrices, k \in 1..MaxK : kmeans = [NoKMeans EXCEPT !.phase = "new", !.X = X, !.k = k]
    /\ sentiment_results = NoFile
    /\ thematic_results = NoFile
    /\ num_clusters = NUM_CLUSTERS
    /\ sort_kind = "stable"
    /\ entropy = 0
    /\ run = NotRun
    /\ prev_run = NotRun
    /\ runs = 0
    /\ docs = <<>>
    /\ fitted = NotFitted
    /\ cluster_centers = <<>>
    /\ n_terms = 0
    /\ cluster_themes = <<>>
    /\ raw_reviews = NoFile
    /\ clean_reviews = NoFile
    /\ stage = NoStage
    /\ db = NoLoad

NextKMeans == KMeansStart \/ LloydIteration

SpecKMeans == InitKMeans /\ [][NextKMeans]_vars

-----------------------------------------------------------------------------
(* Properties *)

InputRows == sentiment_results.rows
OutputRows == thematic_results.rows
HasThemeColumn == thematic_results.exists /\ "theme_id" \in thematic_results.columns
IsNegative(row) == row.sentiment_label = "NEGATIVE"
NegativeCount == Cardinality({ i \in 1..Len(InputRows) : IsNegative(InputRows[i]) })
HasRun == run.outcome # "not_run" /\ sentiment_results.exists
SameInputRow(i) ==
    /\ OutputRows[i].sentiment_label = InputRows[i].sentiment_label
    /\ OutputRows[i].review = InputRows[i].review

C2_NonNegativeRowsUnthemed ==
    thematic_results.exists =>
        \A i \in 1..Len(OutputRows) :
            ~IsNegative(OutputRows[i]) => (HasThemeColumn /\ OutputRows[i].theme_id = -1)

\* C3: the output has as many rows as the loaded dataset and row i of the output
\* is row i of the input, whatever rows are NEGATIVE.
C3_MergePreservesRows ==
    thematic_results.exists =>
        /\ sentiment_results.exists
        /\ Len(OutputRows) = Len(InputRows)
        /\ \A i \in 1..Len(InputRows) : SameInputRow(i)

C3_Witness ==
    /\ HasRun /\ run.outcome = "saved" /\ thematic_results.exists
    /\ \E i, j \in 1..Len(InputRows) :
          i < j /\ ~IsNegative(InputRows[i]) /\ IsNegative(InputRows[j])
    /\ \E i, j \in 1..Len(InputRows) :
          i < j /\ IsNegative(InputRows[i]) /\ ~IsNegative(InputRows[j])

\* C4: after a run on a dataset with no NEGATIVE row the function has not raised
\* and the file it wrote has a theme_id column equal to -1 in every row.
C4_NoNegativesAllMinusOne ==
    (HasRun /\ NegativeCount = 0) =>
        /\ ~run.raised
        /\ HasThemeColumn
        /\ Len(OutputRows) = Len(InputRows)
        /\ \A i \in 1..Len(OutputRows) : OutputRows[i].theme_id = -1

\* C5 as claimed: with 1 <= N < K negative documents the run fails in the
\* clustering stage, with the too-few-samples error.
C5_TooFewDocsFailInClustering ==
    (HasRun /\ 1 <= NegativeCount /\ NegativeCount < num_clusters) =>
        (run.outcome = "error" /\ run.error = ErrTooFewSamples /\ ~run.clustered)

\* C5 as amended: with 1 <= N < K negative documents the run ends in a reported
\* error, assigns no cluster and writes no output; the error is the clustering
\* stage's too-few-samples error exactly when vectorization succeeded, and one of
\* the vectorizer's errors otherwise.
C5_TooFewDocsNoAssignment ==
    (HasRun /\ 1 <= NegativeCount /\ NegativeCount < num_clusters) =>
        /\ run.outcome = "error"
        /\ ~run.clustered /\ run.labels = <<>>
        /\ ~thematic_results.exists
        /\ run.error \in VectorizerErrors \cup { ErrTooFewSamples }
        /\ (run.error = ErrTooFewSamples <=> run.vocabulary # <<>>)

C5_Witness ==
    /\ HasRun /\ 1 <= NegativeCount /\ NegativeCount < num_clusters
    /\ run.error = ErrTooFewSamples

\* C6: when no term of the negative documents passes the document-frequency
\* thresholds, the run ends in one of the vectorizer's errors and the clustering
\* step is not executed.
C6_EmptyVocabularyHaltsClustering ==
    (HasRun /\ NegativeCount >= 1
       /\ \A j \in 1..Len(TermOrder) :
             LET df == Cardinality({ i \in 1..Len(InputRows) :
                          /\ IsNegative(InputRows[i])
                          /\ TermCount(InputRows[i].review, TermOrder[j]) > 0 })
             IN  ~(df >= min_df /\ df * 100 <= max_df_percent * NegativeCount)) =>
        /\ run.outcome = "error"
        /\ run.error \in VectorizerErrors
        /\ ~run.clustered /\ run.labels = <<>>
        /\ ~thematic_results.exists

C6_Witness ==
    /\ HasRun /\ NegativeCount >= min_df + 1
    /\ run.error = ErrNoTermsRemain

\* C7: a NEGATIVE row whose review text is missing is never given a theme: where
\* a themed output was saved, every such row has theme_id = -1.
C7_MissingTextNeverClustered ==
    (HasRun /\ run.outcome = "saved") =>
        \A i \in 1..Len(InputRows) :
            (IsNegative(InputRows[i]) /\ InputRows[i].review.na) =>
                OutputRows[i].theme_id = -1

-----------------------------------------------------------------------------
(* Properties of get_top_terms_per_cluster *)

TermIndex(term) == CHOOSE j \in 1..Len(TopTermsVocabulary) : TopTermsVocabulary[j] = term
\* the centroid weight, in cluster i, of the term listed at position p
ListedWeight(i, p) == cluster_centers[i][TermIndex(cluster_themes[i][p])]
Listed(i) == { TermIndex(cluster_themes[i][p]) : p \in 1..Len(cluster_themes[i]) }
Unlisted(i) == (1..Len(TopTermsVocabulary)) \ Listed(i)
TopTermsDone == cluster_themes # <<>>

\* C9 as claimed: the listed terms are the n_terms heaviest in descending weight
\* order, and of two terms of equal weight the lower vocabulary index is listed
\* (and selected) first.
C9_TiesLowestIndexFirst ==
    TopTermsDone =>
        \A i \in 1..Len(cluster_centers) :
            /\ \A p, q \in 1..Len(cluster_themes[i]) :
                  p < q =>
                     \/ ListedWeight(i, p) > ListedWeight(i, q)
                     \/ /\ ListedWeight(i, p) = ListedWeight(i, q)
                        /\ TermIndex(cluster_themes[i][p]) < TermIndex(cluster_themes[i][q])
            /\ \A l \in Listed(i), u \in Unlisted(i) :
                  \/ cluster_centers[i][l] > cluster_centers[i][u]
                  \/ cluster_centers[i][l] = cluster_centers[i][u] /\ l < u

\* C9 as amended: for every cluster the list holds min(n_terms, V) distinct
\* terms, none lighter than an unlisted term, in descending weight order; terms
\* of equal weight come in the reverse of the order argsort gave them, which for
\* a stable sort is the higher vocabulary index first.
C9_TopTermsDescending ==
    TopTermsDone =>
        \A i \in 1..Len(cluster_centers) :
            /\ Len(cluster_themes[i]) = Min(n_terms, Len(TopTermsVocabulary))
            /\ Cardinality(Listed(i)) = Len(cluster_themes[i])
            /\ \A p, q \in 1..Len(cluster_themes[i]) :
                  p < q =>
                     \/ ListedWeight(i, p) > ListedWeight(i, q)
                     \/ /\ ListedWeight(i, p) = ListedWeight(i, q)
                        /\ sort_kind = "stable" =>
                              TermIndex(cluster_themes[i][p]) > TermIndex(cluster_themes[i][q])
            /\ \A l \in Listed(i), u \in Unlisted(i) :
                  \/ cluster_centers[i][l] > cluster_centers[i][u]
                  \/ /\ cluster_centers[i][l] = cluster_centers[i][u]
                     /\ sort_kind = "stable" => l > u

C9_Witness ==
    /\ TopTermsDone /\ sort_kind = "stable" /\ n_terms < Len(TopTermsVocabulary)
    /\ \E i \in 1..Len(cluster_centers) :
          /\ \E l \in Listed(i), u \in Unlisted(i) : cluster_centers[i][l] = cluster_centers[i][u]
          /\ \E l \in Listed(i), u \in Unlisted(i) : cluster_centers[i][l] > cluster_centers[i][u]

-----------------------------------------------------------------------------
(* Properties of the vocabulary selection *)

Fitted == fitted # NotFitted
InVocabulary(term) == \E j \in 1..Len(fitted.vocabulary) : fitted.vocabulary[j] = term
DocsWith(term) == Cardinality({ i \in 1..Len(docs) : TermCount(docs[i], term) > 0 })

\* C10 as claimed: a term is in the vocabulary exactly when it appears in at
\* least 5 documents and in strictly less than 85% of them.
C10_UpperBoundExclusive ==
    Fitted =>
        \A j \in 1..Len(TermOrder) :
            InVocabulary(TermOrder[j]) <=>
                /\ DocsWith(TermOrder[j]) >= 5
                /\ DocsWith(TermOrder[j]) * 100 < 85 * Len(docs)

\* C10 as amended: a term is in the vocabulary exactly when it appears in at
\* least 5 documents and in at most 85% of them; a term whose document frequency
\* equals the upper bound is included.
C10_UpperBoundInclusive ==
    Fitted =>
        \A j \in 1..Len(TermOrder) :
            InVocabulary(TermOrder[j]) <=>
                /\ DocsWith(TermOrder[j]) >= 5
                /\ DocsWith(TermOrder[j]) * 100 <= 85 * Len(docs)

C10_Witness ==
    /\ Fitted /\ fitted.error = NoError
    /\ \E j \in 1..Len(TermOrder) :
          /\ InVocabulary(TermOrder[j])
          /\ DocsWith(TermOrder[j]) * 100 = 85 * Len(docs)
    /\ \E j \in 1..Len(TermOrder) :
          /\ ~InVocabulary(TermOrder[j])
          /\ DocsWith(TermOrder[j]) * 100 > 85 * Len(docs)

\* ---- C11 ----
KMeansEnded == kmeans.phase \in {"done", "error"}

\* Every step of a running loop is one more iteration: max_iter - n_iter falls.
C11_OneMoreIteration ==
    kmeans.phase = "iterating" =>
        /\ kmeans'.n_iter = kmeans.n_iter + 1
        /\ kmeans'.phase \in {"iterating", "done"}

\* The loop makes at most max_iter iterations, goes on only after an iteration
\* that changed some assignment, and ends only on an unchanged assignment or at
\* max_iter, with one cluster id in 0..k-1 (here 1..k) for every row.
C11_LoopState ==
    /\ kmeans.n_iter <= max_iter
    /\ (kmeans.phase = "iterating" /\ kmeans.n_iter >= 1) => kmeans.labels # kmeans.labels_old
    /\ kmeans.phase = "done" =>
          /\ kmeans.labels = kmeans.labels_old \/ kmeans.n_iter = max_iter
          /\ DOMAIN kmeans.labels = 1..Len(kmeans.X)
          /\ \A i \in 1..Len(kmeans.X) : kmeans.labels[i] \in 1..kmeans.k

KMeansStepsAgree ==
    KMeansEnded =>
        LET fit == KMeansFit(kmeans.X, kmeans.k, Seed)
        IN  /\ fit.error = kmeans.error
            /\ kmeans.phase = "done" =>
                  /\ fit.n_iter = kmeans.n_iter
                  /\ fit.labels = Tuple([i \in 1..Len(kmeans.X) |-> kmeans.labels[i] - 1])
                  /\ fit.centers = Tuple([j \in 1..kmeans.k |-> kmeans.centers[j].sum])

\* ---- C12 ----
\* Row i is as far from centroid a as from centroid b of the last assignment.
Equidistant(i, a, b) ==
    /\ ~Closer(kmeans.X[i], kmeans.assigned_from[a], kmeans.assigned_from[b])
    /\ ~Closer(kmeans.X[i], kmeans.assigned_from[b], kmeans.assigned_from[a])

\* The centroids nearest to row i in the last assignment
NearestCentroids(i) ==
    { a \in 1..kmeans.k :
        \A b \in 1..kmeans.k : ~Closer(kmeans.X[i], kmeans.assigned_from[b], kmeans.assigned_from[a]) }

Assigned == kmeans.phase \in {"iterating", "done"} /\ kmeans.n_iter >= 1

\* C12: in the assignment step a row equidistant to two or more nearest
\* centroids gets the lowest index among those nearest centroids.
C12_TieGoesToLowestIndex ==
    Assigned =>
        \A i \in 1..Len(kmeans.X) :
            /\ kmeans.labels[i] \in NearestCentroids(i)
            /\ \A a \in NearestCentroids(i) : kmeans.labels[i] <= a

\* A row between two different centroids, as far from one as from the other
C12_Witness ==
    /\ Assigned
    /\ \E i \in 1..Len(kmeans.X) : \E a \in NearestCentroids(i) :
          /\ a > kmeans.labels[i]
          /\ Equidistant(i, a, kmeans.labels[i])
          /\ kmeans.assigned_from[a].sum[1] * kmeans.assigned_from[kmeans.labels[i]].n
                # kmeans.assigned_from[kmeans.labels[i]].sum[1] * kmeans.assigned_from[a].n

\* ---- C13 ----
\* C13: a run that fails before the final save reports the error, does not
\* raise, and leaves the thematic results file exactly as it was before the run.
C13_ErrorLeavesResults ==
    [][run'.outcome = "error" =>
          /\ run'.error # NoError
          /\ ~run'.raised
          /\ thematic_results' = thematic_results]_vars

\* A failed run after which the results of an earlier run are still in place
C13_Witness ==
    /\ run.outcome = "error"
    /\ run.error \in VectorizerErrors \cup { ErrTooFewSamples }
    /\ thematic_results = EarlierResults

\* ---- C14 ----
Files == <<raw_reviews, clean_reviews, sentiment_results, thematic_results>>

\* The step was a run of this script.
Ran(script) == stage'.script = script

\* The step wrote this script's output, whether or not the content changed.
Wrote(script) == Ran(script) /\ stage'.wrote

\* Every row of the clean table has got a sentiment label in the new results.
LabelledFrom(clean, results) ==
    /\ "sentiment_label" \in results.columns
    /\ Len(results.rows) = Len(clean.rows)
    /\ \A i \in 1..Len(clean.rows) :
          /\ results.rows[i].review = clean.rows[i].review
          /\ results.rows[i].sentiment_label \in SentimentLabels

C14_Step ==
    /\ clean_reviews' # clean_reviews => Wrote("preprocess_data")
    /\ sentiment_results' # sentiment_results => Wrote("sentiment_analysis")
    /\ thematic_results' # thematic_results => Wrote("thematic_analysis")
    /\ Wrote("preprocess_data") =>
          /\ raw_reviews.exists
          /\ \A i \in 1..Len(raw_reviews.rows) :
                ~raw_reviews.rows[i].content.na =>
                    \E p \in 1..Len(clean_reviews'.rows) :
                        clean_reviews'.rows[p].review = raw_reviews.rows[i].content
    /\ Wrote("sentiment_analysis") =>
          /\ clean_reviews.exists
          /\ LabelledFrom(clean_reviews, sentiment_results')
    /\ Wrote("thematic_analysis") =>
          /\ sentiment_results.exists
          /\ Len(thematic_results'.rows) = Len(sentiment_results.rows)
    /\ (Ran("preprocess_data") /\ ~raw_reviews.exists) => Files' = Files
    /\ (Ran("sentiment_analysis") /\ ~clean_reviews.exists) => Files' = Files
    /\ (Ran("thematic_analysis") /\ ~sentiment_results.exists) => Files' = Files

\* C14: from an empty data directory and for any order of stage runs, a stage
\* writes its output only if its predecessor's output exists and was read in
\* full (for the sentiment results: only with a label for every row), and a
\* stage run whose input is missing changes no file.
C14_StagesNeedPredecessor == [][C14_Step]_vars

\* All three outputs written, each from its predecessor
C14_Witness ==
    /\ raw_reviews.exists /\ clean_reviews.exists
    /\ sentiment_results.exists /\ thematic_results.exists
    /\ stage.script = "thematic_analysis" /\ stage.wrote
    /\ Len(thematic_results.rows) >= 1

\* ---- C15 ----
Preprocessed == stage.script = "preprocess_data" /\ stage.wrote
InputTable == raw_reviews.rows
ResultTable == clean_reviews.rows

\* Input rows i and j agree on (review, rating, bank).
InputDuplicates(i, j) ==
    /\ InputTable[i].content = InputTable[j].content
    /\ InputTable[i].score = InputTable[j].score
    /\ InputTable[i].bank_name = InputTable[j].bank_name

\* The input rows that have a review text and no duplicate before them
FirstOccurrences ==
    { i \in 1..Len(InputTable) :
        /\ ~InputTable[i].content.na
        /\ \A j \in 1..(i - 1) : ~InputDuplicates(j, i) }

\* Result row p is input row i: the same review, rating, bank and source, and
\* the same date, written as a calendar date when the dates were normalized.
IsInputRow(p, i) ==
    /\ ResultTable[p].review = InputTable[i].content
    /\ ResultTable[p].rating = InputTable[i].score
    /\ ResultTable[p].bank = InputTable[i].bank_name
    /\ ResultTable[p].source = InputTable[i].source
    /\ ResultTable[p].date \in { InputTable[i].at, [InputTable[i].at EXCEPT !.time = 0] }

\* C15: the result of preprocess_data has no two rows that agree on (review,
\* rating, bank) and no row without review text; its rows are the first
\* occurrences of the input's duplicate groups, in the input's order, so it has
\* no more rows than the input.
C15_FirstOccurrencesKept ==
    Preprocessed =>
        /\ \A p, q \in 1..Len(ResultTable) :
              (/\ ResultTable[p].review = ResultTable[q].review
               /\ ResultTable[p].rating = ResultTable[q].rating
               /\ ResultTable[p].bank = ResultTable[q].bank) => p = q
        /\ \A p \in 1..Len(ResultTable) : ~ResultTable[p].review.na
        /\ Len(ResultTable) = Cardinality(FirstOccurrences)
        /\ \A p \in 1..Len(ResultTable) :
              \E i \in FirstOccurrences :
                  /\ Cardinality({ j \in FirstOccurrences : j <= i }) = p
                  /\ IsInputRow(p, i)
        /\ Len(ResultTable) <= Len(InputTable)

\* A table with a duplicate that differs from the row kept, and a row without
\* review text
C15_Witness ==
    /\ Preprocessed
    /\ Len(ResultTable) >= 1
    /\ \E i, j \in 1..Len(InputTable) :
          i < j /\ InputDuplicates(i, j) /\ ~InputTable[i].content.na
                /\ InputTable[i].at # InputTable[j].at
    /\ \E i \in 1..Len(InputTable) : InputTable[i].content.na

\* ---- C16 ----
Returned == db.pc = "returned"

\* The rows of run r in the fintech_reviews table
RowsOfRun(r) == db.table[r]

\* When the function has returned, the run's rows are all in the table after a
\* success and none of them is after any error.
C16_Returned ==
    Returned =>
        /\ RowsOfRun(db.load) \in { 0, db.csv_rows }
        /\ db.outcome = "success" => RowsOfRun(db.load) = db.csv_rows
        /\ db.outcome # "success" => RowsOfRun(db.load) = 0
        /\ db.pending = 0 /\ ~db.connected

\* No step changes the rows an earlier run has committed.
C16_EarlierRowsKept ==
    \A r \in 1..MaxLoads : r # db'.load => db'.table[r] = db.table[r]

\* C16: ingestion is all-or-nothing per run: when load_data_to_postgres has
\* returned, either every row of the results file is committed to the table or,
\* after an error at any point of the insertion, none of the run's rows is; the
\* rows of earlier runs are never removed or changed.
C16_AllOrNothing == []C16_Returned /\ [][C16_EarlierRowsKept]_vars

\* A run that failed after a full page of its rows had been inserted, with the
\* rows of an earlier run in the table
C16_Witness ==
    /\ Returned
    /\ db.load = 2
    /\ RowsOfRun(1) > page_size
    /\ db.outcome \in ErrorKinds
    /\ db.sent >= page_size /\ db.sent < db.csv_rows
====
